---------------------------- MODULE Spec2Model ----------------------------
(***************************************************************************)
(* A model of levp/ast: the operator registry (Operator.ts), the tokenizer *)
(* (Tokenizer.ts), the shunting-yard tree builder (AST.create) and the     *)
(* evaluator (ExprNode.evaluate).                                          *)
(*                                                                         *)
(* Strings are TLA+ strings where the code only compares them, and         *)
(* sequences of one-character strings where the code indexes them.         *)
(* Indices into an expression are 0-based, as in the code: the character   *)
(* at index i of expr is expr[i + 1].                                      *)
(***************************************************************************)
EXTENDS Integers, Sequences, FiniteSets, TLC

VARIABLES
    \* ---- AST.create ----
    tokens,      \* the argument of AST.create
    idx,         \* number of tokens the for loop has consumed
    exprStack,   \* const exprStack: ExprNode[]
    opStack,     \* const opStack: Token[]
    pc,          \* "loop" | "returned" | "thrown"
    error,       \* the error thrown ("" when none)
    result,      \* <<>> for undefined, <<node>> for a returned node
    \* ---- Operator.dictionary and the constructor calls made so far ----
    dictionary,  \* Operator.dictionary
    registered,  \* the operators the constructor has been called for, in order
    regError,    \* whether the latest constructor call threw
    parsed,      \* <<>> or the latest call of Operator.parse: [text, at, op]
    \* ---- Tokenizer.tokenize ----
    expr,        \* the argument of tokenize, a sequence of characters
    i,           \* let i
    tokenList,   \* const tokenList: Token[]
    spans,       \* history: <<start, end>> of the characters of each token
    tpc,         \* "scan" | "returned" | "thrown"
    terror       \* <<>> or <<the character reported by the error>>

astVars == <<tokens, idx, exprStack, opStack, pc, error, result>>
regVars == <<dictionary, registered, regError, parsed>>
tokVars == <<expr, i, tokenList, spans, tpc, terror>>
vars == <<astVars, regVars, tokVars>>

-----------------------------------------------------------------------------
(* Sequence helpers *)

Peek(array) == array[Len(array)]

Pop(array) == SubSeq(array, 1, Len(array) - 1)

RECURSIVE Str(_)
\* The string spelled by a sequence of characters.
Str(chars) == IF chars = <<>> THEN "" ELSE Head(chars) \o Str(Tail(chars))

\* expr.substring(a, b) for 0 <= a <= b: characters a .. min(b, length) - 1.
Substring(e, a, b) ==
    SubSeq(e, a + 1, IF b > Len(e) THEN Len(e) ELSE b)

\* expr.substr(a, n): n characters from index a, cut at the end of the string.
Substr(e, a, n) ==
    SubSeq(e, a + 1, IF a + n > Len(e) THEN Len(e) ELSE a + n)

-----------------------------------------------------------------------------
(* Operator.ts *)

\* new Operator(precedence, symbol, isLeftAssociative, func): the fields the
\* constructor stores; length is func.length, the arity of func.
Operator(precedence, symbol, isLeftAssociative, length) ==
    [precedence |-> precedence, symbol |-> symbol,
     isLeftAssociative |-> isLeftAssociative, length |-> length]

\* The constructor calls at the end of Operator.ts, in source order.
BuiltinOperators ==
    << Operator(0, "+", TRUE, 2),
       Operator(0, "-", TRUE, 2),
       Operator(1, "*", TRUE, 2),
       Operator(1, "/", TRUE, 2),
       Operator(1, "%", TRUE, 2),
       Operator(2, "**", FALSE, 2),
       Operator(3, "~", FALSE, 1) >>

EmptyMap == [s \in {} |-> s]

HasOwnProperty(map, key) == key \in DOMAIN map

RECURSIVE InsertDesc(_, _)
\* One step of a stable sort by descending symbolLength: e goes after every
\* entry that is not shorter than it.
InsertDesc(sorted, e) ==
    IF sorted = <<>> THEN <<e>>
    ELSE IF Head(sorted).symbolLength >= e.symbolLength
         THEN <<Head(sorted)>> \o InsertDesc(Tail(sorted), e)
         ELSE <<e>> \o sorted

\* register without its sort: the new entry stays where push put it.
SortDescSkipped(dic) == dic

RECURSIVE SortDesc(_)
\* dic.sort((a, b) => b.symbolLength - a.symbolLength)
SortDesc(dic) ==
    IF dic = <<>> THEN <<>>
    ELSE InsertDesc(SortDesc(Pop(dic)), Peek(dic))

\* Step 1 of register: the index of the last entry of this symbol length, 0 if none.
FindEntry(dic, opLength) ==
    LET hits == {k \in 1..Len(dic) : dic[k].symbolLength = opLength}
    IN IF hits = {} THEN 0 ELSE CHOOSE k \in hits : \A j \in hits : j <= k

\* register without its hasOwnProperty test: the new operator replaces the
\* one that holds the symbol.
RegisterOverwriting(dic, op) ==
    LET opLength == Len(op.symbol)
        found == FindEntry(dic, opLength)
        dic1 == IF found = 0
                THEN SortDesc(Append(dic, [symbolLength |-> opLength, opMap |-> EmptyMap]))
                ELSE dic
        at == FindEntry(dic1, opLength)
        map == dic1[at].opMap
    IN [dic |-> [dic1 EXCEPT ![at].opMap =
                    (op.symbol :> op) @@ [s \in DOMAIN map \ {op.symbol} |-> map[s]]],
        threw |-> FALSE]

\* Operator.register(op): the dictionary afterwards and whether it threw.
Register(dic, op) ==
    LET opLength == Len(op.symbol)
        found == FindEntry(dic, opLength)
        dic1 == IF found = 0
                THEN SortDesc(Append(dic, [symbolLength |-> opLength, opMap |-> EmptyMap]))
                ELSE dic
        at == FindEntry(dic1, opLength)
        map == dic1[at].opMap
    IN IF HasOwnProperty(map, op.symbol)
       THEN [dic |-> dic1, threw |-> TRUE]
       ELSE [dic |-> [dic1 EXCEPT ![at].opMap = (op.symbol :> op) @@ map],
             threw |-> FALSE]

RECURSIVE RegisterAll(_, _)
\* The dictionary after the constructor calls ops, made in order on dic.
RegisterAll(dic, ops) ==
    IF ops = <<>> THEN dic
    ELSE RegisterAll(Register(dic, Head(ops)).dic, Tail(ops))

\* Operator.dictionary once Operator.ts has been loaded.
BuiltinDictionary == RegisterAll(<<>>, BuiltinOperators)

RECURSIVE ParseFrom(_, _, _, _)
\* The for loop of Operator.parse from entry k on; <<>> stands for null.
ParseFrom(dic, e, startIndex, k) ==
    IF k > Len(dic) THEN <<>>
    ELSE LET endIndex == startIndex + dic[k].symbolLength
             testedString == Str(Substring(e, startIndex, endIndex))
         IN IF endIndex > Len(e) THEN ParseFrom(dic, e, startIndex, k + 1)
            ELSE IF HasOwnProperty(dic[k].opMap, testedString)
                 THEN <<dic[k].opMap[testedString]>>
                 ELSE ParseFrom(dic, e, startIndex, k + 1)

\* Operator.parse(expr, startIndex) on the dictionary dic.
Parse(dic, e, startIndex) == ParseFrom(dic, e, startIndex, 1)

\* The built-in operator with this symbol.
OperatorOf(symbol) ==
    LET k == CHOOSE k \in 1..Len(BuiltinOperators) : BuiltinOperators[k].symbol = symbol
    IN BuiltinOperators[k]

-----------------------------------------------------------------------------
(* Token (Token.resolveType decides the type from the value) and FunctionMap *)

\* new Token(x) for the number x = num / 10^scale.
DecimalToken(num, scale) == [type |-> "Number", num |-> num, scale |-> scale, sym |-> ""]

\* new Token(n) for an integer n.
NumberToken(n) == DecimalToken(n, 0)

\* new Token(op) for an Operator; sym names the operator the token refers to.
OperatorToken(symbol) == [type |-> "Operator", num |-> 0, scale |-> 0, sym |-> symbol]

LeftParenToken == [type |-> "LeftParenthesis", num |-> 0, scale |-> 0, sym |-> "("]

RightParenToken == [type |-> "RightParenthesis", num |-> 0, scale |-> 0, sym |-> ")"]

SeparatorToken == [type |-> "ArgumentSeparator", num |-> 0, scale |-> 0, sym |-> ","]

\* new Token(FunctionMap[name]).
FunctionToken(name) == [type |-> "Function", num |-> 0, scale |-> 0, sym |-> name]

\* FunctionMap: each name with the number of parameters of its function.
FunctionMap ==
    ("max" :> 2) @@ ("min" :> 2) @@ ("rand" :> 0) @@
    ("floor" :> 1) @@ ("ceil" :> 1) @@ ("round" :> 1)

\* An arity that takes every operator for a binary one.
ArgCountBinary(token) ==
    IF token.type = "Operator" THEN 2 ELSE FunctionMap[token.sym]

\* token.value.length in popOperator: the arity of the operator or function.
ArgCount(token) ==
    IF token.type = "Operator" THEN OperatorOf(token.sym).length
    ELSE FunctionMap[token.sym]

-----------------------------------------------------------------------------
(* ExprNode *)

\* new ExprNode(token): children is undefined.
Leaf(token) == [token |-> token, hasChildren |-> FALSE, children |-> <<>>]

\* new ExprNode(token, children)
Node(token, children) == [token |-> token, hasChildren |-> TRUE, children |-> children]

-----------------------------------------------------------------------------
(* AST.create.  A parser state is [exprStack, opStack, error]; error is ""   *)
(* while nothing has been thrown.  "TypeError" is the engine's error for     *)
(* reading .type of undefined, which peek returns on an empty array.         *)

Threw(st, err) == [st EXCEPT !.error = err]

\* popOperator filling args from index 0 up: the node on top of the
\* expression stack becomes the first child.
PopOperatorReversed(st) ==
    LET token == Peek(st.opStack)
        st1 == [st EXCEPT !.opStack = Pop(st.opStack)]
        argCount == ArgCount(token)
        n == Len(st.exprStack)
    IN IF token.type # "Function" /\ token.type # "Operator"
       THEN Threw(st1, "InvalidOperatorToken")
       ELSE IF argCount > n
            THEN Threw(st1, "NotEnoughExpressions")
            ELSE [st1 EXCEPT !.exprStack =
                     Append(SubSeq(st.exprStack, 1, n - argCount),
                            Node(token, [k \in 1..argCount |-> st.exprStack[n + 1 - k]]))]

\* popOperator(opStack, exprStack)
PopOperator(st) ==
    LET token == Peek(st.opStack)
        st1 == [st EXCEPT !.opStack = Pop(st.opStack)]
        argCount == ArgCount(token)
        n == Len(st.exprStack)
    IN IF token.type # "Function" /\ token.type # "Operator"
       THEN Threw(st1, "InvalidOperatorToken")
       ELSE IF argCount > n
            THEN Threw(st1, "NotEnoughExpressions")
            ELSE [st1 EXCEPT !.exprStack =
                     Append(SubSeq(st.exprStack, 1, n - argCount),
                            Node(token, SubSeq(st.exprStack, n - argCount + 1, n)))]

\* What the right-parenthesis case does once the left parenthesis is on top.
CloseParen(st) ==
    LET st1 == [st EXCEPT !.opStack = Pop(st.opStack)]
    IN IF st1.opStack = <<>>
       THEN Threw(st1, "TypeError")
       ELSE IF Peek(st1.opStack).type = "Function"
            THEN PopOperator(st1)
            ELSE st1

RECURSIVE RightParenLoopUnchecked(_)
\* The right-parenthesis loop without the opStack.length === 0 test: peek of
\* the empty array is undefined and reading its type is a TypeError.
RightParenLoopUnchecked(st) ==
    IF st.opStack = <<>> THEN Threw(st, "TypeError")
    ELSE IF Peek(st.opStack).type = "LeftParenthesis" THEN CloseParen(st)
    ELSE LET st1 == PopOperator(st)
         IN IF st1.error # "" THEN st1 ELSE RightParenLoopUnchecked(st1)

RECURSIVE RightParenLoop(_)
\* case TokenType.RightParenthesis: the while (true) loop.
RightParenLoop(st) ==
    IF st.opStack = <<>> THEN Threw(st, "MismatchedRightParen")
    ELSE IF Peek(st.opStack).type = "LeftParenthesis" THEN CloseParen(st)
    ELSE LET st1 == PopOperator(st)
         IN IF st1.error # "" THEN st1 ELSE RightParenLoop(st1)

\* The operator case without conditions [3] and [4]: precedence is ignored.
OperatorBreaksIgnoringPrecedence(op, nextOp) == nextOp.type # "Operator"

\* The operator case with condition [4] applied to every operator.
OperatorBreaksRightOnly(op, nextOp) ==
    \/ nextOp.type # "Operator"
    \/ op.precedence >= OperatorOf(nextOp.sym).precedence

\* Conditions [2], [3], [4] of the operator case: the loop stops at nextOp.
OperatorBreaks(op, nextOp) ==
    \/ nextOp.type # "Operator"
    \/ op.isLeftAssociative /\ op.precedence > OperatorOf(nextOp.sym).precedence
    \/ ~op.isLeftAssociative /\ op.precedence >= OperatorOf(nextOp.sym).precedence

RECURSIVE OperatorLoop(_, _)
\* case TokenType.Operator: the while (opStack.length > 0) loop.
OperatorLoop(st, op) ==
    IF st.opStack = <<>> THEN st
    ELSE IF OperatorBreaks(op, Peek(st.opStack)) THEN st
    ELSE LET st1 == PopOperator(st)
         IN IF st1.error # "" THEN st1 ELSE OperatorLoop(st1, op)

RECURSIVE SeparatorLoop(_)
\* case TokenType.ArgumentSeparator: the while (true) loop.
SeparatorLoop(st) ==
    IF st.opStack = <<>> THEN Threw(st, "TypeError")
    ELSE IF Peek(st.opStack).type = "LeftParenthesis" THEN st
    ELSE SeparatorLoop([st EXCEPT !.exprStack = Append(st.exprStack, Leaf(Peek(st.opStack))),
                                  !.opStack = Pop(st.opStack)])

\* One iteration of the for loop: the switch on token.type.
ProcessToken(st, token) ==
    CASE token.type = "Number" ->
            [st EXCEPT !.exprStack = Append(st.exprStack, Leaf(token))]
      [] token.type = "LeftParenthesis" ->
            [st EXCEPT !.opStack = Append(st.opStack, token)]
      [] token.type = "RightParenthesis" -> RightParenLoop(st)
      [] token.type = "Operator" ->
            LET st1 == OperatorLoop(st, OperatorOf(token.sym))
            IN IF st1.error # "" THEN st1
               ELSE [st1 EXCEPT !.opStack = Append(st1.opStack, token)]
      [] token.type = "ArgumentSeparator" -> SeparatorLoop(st)
      [] token.type = "Function" ->
            [st EXCEPT !.opStack = Append(st.opStack, token)]
      [] OTHER -> Threw(st, "UnknownTokenType")

RECURSIVE DrainLoopUnchecked(_)
\* The drain loop without the test for a left parenthesis: popOperator is
\* handed the parenthesis and rejects it as an invalid operator token.
DrainLoopUnchecked(st) ==
    IF st.opStack = <<>> THEN st
    ELSE LET st1 == PopOperator(st)
         IN IF st1.error # "" THEN st1 ELSE DrainLoopUnchecked(st1)

RECURSIVE DrainLoop(_)
\* The while loop after the for loop: pop remaining operators.
DrainLoop(st) ==
    IF st.opStack = <<>> THEN st
    ELSE IF Peek(st.opStack).type = "LeftParenthesis"
         THEN Threw(st, "MismatchedLeftParen")
         ELSE LET st1 == PopOperator(st)
              IN IF st1.error # "" THEN st1 ELSE DrainLoop(st1)

\* return exprStack.pop(): <<>> is undefined.
ReturnValue(st) == IF st.exprStack = <<>> THEN <<>> ELSE <<Peek(st.exprStack)>>

NewParse == [exprStack |-> <<>>, opStack |-> <<>>, error |-> ""]

RECURSIVE ParseLoop(_, _)
\* The for loop of AST.create over the remaining tokens.
ParseLoop(st, toks) ==
    IF toks = <<>> \/ st.error # "" THEN st
    ELSE ParseLoop(ProcessToken(st, Head(toks)), Tail(toks))

\* AST.create(toks) as a whole: [error, result].
Create(toks) ==
    LET st == ParseLoop(NewParse, toks)
        fin == IF st.error # "" THEN st ELSE DrainLoop(st)
    IN [error |-> fin.error,
        result |-> IF fin.error # "" THEN <<>> ELSE ReturnValue(fin)]

-----------------------------------------------------------------------------
(* Tokenizer.ts.  null is <<>>; a ParseInfo is <<[token, charsRead]>>.       *)

Digits == {"0", "1", "2", "3", "4", "5", "6", "7", "8", "9"}

LowerCase ==
    {"a", "b", "c", "d", "e", "f", "g", "h", "i", "j", "k", "l", "m",
     "n", "o", "p", "q", "r", "s", "t", "u", "v", "w", "x", "y", "z"}

UpperCase ==
    {"A", "B", "C", "D", "E", "F", "G", "H", "I", "J", "K", "L", "M",
     "N", "O", "P", "Q", "R", "S", "T", "U", "V", "W", "X", "Y", "Z"}

\* The characters tokenize skips: space, line feed, carriage return, tab.
Whitespace == {" ", "\n", "\r", "\t"}

\* isAlphabetic(str, index)
IsAlphabetic(e, index) ==
    index < Len(e) /\ e[index + 1] \in LowerCase \cup UpperCase

\* isAlphaNumeric(str, index)
IsAlphaNumeric(e, index) ==
    index < Len(e) /\ e[index + 1] \in Digits \cup LowerCase \cup UpperCase

DigitValue(c) == CHOOSE n \in 0..9 : ToString(n) = c

RECURSIVE DigitsValue(_)
\* The integer a sequence of digits spells (0 for no digits).
DigitsValue(ds) ==
    IF ds = <<>> THEN 0 ELSE 10 * DigitsValue(Pop(ds)) + DigitValue(Peek(ds))

RECURSIVE Normalise(_, _)
\* num / 10^scale without trailing zeros in the fraction.
Normalise(num, scale) ==
    IF scale > 0 /\ num % 10 = 0 THEN Normalise(num \div 10, scale - 1)
    ELSE DecimalToken(num, scale)

\* new Token(Number(text)) for a run of digits with at most one decimal mark.
NumberOf(text) ==
    LET dots == {k \in 1..Len(text) : text[k] = "."}
        dot == IF dots = {} THEN Len(text) + 1 ELSE CHOOSE k \in dots : TRUE
        whole == SubSeq(text, 1, dot - 1)
        fraction == SubSeq(text, dot + 1, Len(text))
    IN Normalise(DigitsValue(whole \o fraction), Len(fraction))

RECURSIVE NumberEndAtMark(_, _, _)
\* The for loop of readNumber breaking at the first decimal mark, not the second.
NumberEndAtMark(e, k, decimalMark) ==
    IF k >= Len(e) THEN k
    ELSE IF e[k + 1] \notin Digits THEN k
    ELSE NumberEndAtMark(e, k + 1, decimalMark)

RECURSIVE NumberEnd(_, _, _)
\* The for loop of readNumber: the index it stops at, from index k with
\* decimalMark as given.
NumberEnd(e, k, decimalMark) ==
    IF k >= Len(e) THEN k
    ELSE IF e[k + 1] = "."
         THEN (IF decimalMark = 1 THEN k ELSE NumberEnd(e, k + 1, 1))
         ELSE IF e[k + 1] \notin Digits THEN k
         ELSE NumberEnd(e, k + 1, decimalMark)

\* readNumber(expr, index)
ReadNumber(e, index) ==
    LET end == NumberEnd(e, index, 0)
        charsRead == end - index
        decimalMark == IF \E k \in index + 1..end : e[k] = "." THEN 1 ELSE 0
    IN IF charsRead - decimalMark = 0 THEN <<>>
       ELSE <<[token |-> NumberOf(Substr(e, index, charsRead)), charsRead |-> charsRead]>>

RECURSIVE NameEnd(_, _)
\* The for loop of readFunction: the first index from k on that is not alphanumeric.
NameEnd(e, k) ==
    IF k < Len(e) /\ IsAlphaNumeric(e, k) THEN NameEnd(e, k + 1) ELSE k

\* The text readFunction looks up in FunctionMap: expr.substr(index, i).
FunctionName(e, index, end) == Str(Substr(e, index, end))

\* readFunction(expr, index)
ReadFunction(e, index) ==
    IF ~IsAlphabetic(e, index) THEN <<>>
    ELSE LET end == NameEnd(e, index + 1)
             functionName == FunctionName(e, index, end)
         IN IF ~HasOwnProperty(FunctionMap, functionName) THEN <<>>
            ELSE <<[token |-> FunctionToken(functionName), charsRead |-> end - index]>>

\* new Token(char) for "(", ")" and ","
PunctuationToken(char) ==
    IF char = "(" THEN LeftParenToken
    ELSE IF char = ")" THEN RightParenToken
    ELSE SeparatorToken

\* Which step of readToken answers at index: "number", "operator",
\* "punctuation", "function" or "none".
Recognizer(dic, e, index) ==
    IF ReadNumber(e, index) # <<>> THEN "number"
    ELSE IF Parse(dic, e, index) # <<>> THEN "operator"
    ELSE IF e[index + 1] \in {"(", ")", ","} THEN "punctuation"
    ELSE IF ReadFunction(e, index) # <<>> THEN "function"
    ELSE "none"

\* readToken(expr, index) with Operator.dictionary = dic
ReadToken(dic, e, index) ==
    LET by == Recognizer(dic, e, index)
    IN CASE by = "number" -> ReadNumber(e, index)
         [] by = "operator" ->
               LET op == Parse(dic, e, index)[1]
               IN <<[token |-> OperatorToken(op.symbol), charsRead |-> Len(op.symbol)]>>
         [] by = "punctuation" ->
               <<[token |-> PunctuationToken(e[index + 1]), charsRead |-> 1]>>
         [] by = "function" -> ReadFunction(e, index)
         [] OTHER -> <<>>

\* An iteration of tokenize that forgets i += info.charsRead.
ScanStepStaying(dic, e, sc) ==
    IF e[sc.i + 1] \in Whitespace THEN [sc EXCEPT !.i = sc.i + 1]
    ELSE LET info == ReadToken(dic, e, sc.i)
         IN IF info = <<>> THEN [sc EXCEPT !.thrown = <<e[sc.i + 1]>>]
            ELSE [sc EXCEPT !.tokenList = Append(sc.tokenList, info[1].token),
                            !.spans = Append(sc.spans, <<sc.i, sc.i + info[1].charsRead>>)]

\* One iteration of the while loop of tokenize on the scan state
\* [i, tokenList, spans, thrown].
ScanStep(dic, e, sc) ==
    IF e[sc.i + 1] \in Whitespace THEN [sc EXCEPT !.i = sc.i + 1]
    ELSE LET info == ReadToken(dic, e, sc.i)
         IN IF info = <<>> THEN [sc EXCEPT !.thrown = <<e[sc.i + 1]>>]
            ELSE [sc EXCEPT !.tokenList = Append(sc.tokenList, info[1].token),
                            !.spans = Append(sc.spans, <<sc.i, sc.i + info[1].charsRead>>),
                            !.i = sc.i + info[1].charsRead]

NewScan == [i |-> 0, tokenList |-> <<>>, spans |-> <<>>, thrown |-> <<>>]

RECURSIVE ScanLoop(_, _, _)
\* The while (i < expr.length) loop of tokenize.
ScanLoop(dic, e, sc) ==
    IF sc.i >= Len(e) \/ sc.thrown # <<>> THEN sc
    ELSE ScanLoop(dic, e, ScanStep(dic, e, sc))

\* tokenize(expr) with Operator.dictionary = dic: the final scan state.
Tokenize(dic, e) == ScanLoop(dic, e, NewScan)

-----------------------------------------------------------------------------
(* The tokenizer of the compiled script.  Its readNumber, Operator.parse,   *)
(* isAlphabetic and isAlphaNumeric have the statements of the TypeScript  *)
(* source and are modelled by the operators above; readFunction differs.   *)

\* The text the compiled readFunction looks up: expr.substring(index, i).
FunctionNameCompiled(e, index, end) == Str(Substring(e, index, end))

\* readFunction(expr, index) of the compiled script
ReadFunctionCompiled(e, index) ==
    IF ~IsAlphabetic(e, index) THEN <<>>
    ELSE LET end == NameEnd(e, index + 1)
             functionName == FunctionNameCompiled(e, index, end)
         IN IF ~HasOwnProperty(FunctionMap, functionName) THEN <<>>
            ELSE <<[token |-> FunctionToken(functionName), charsRead |-> end - index]>>

\* readToken(expr, index) of the compiled script
ReadTokenCompiled(dic, e, index) ==
    IF ReadNumber(e, index) # <<>> THEN ReadNumber(e, index)
    ELSE IF Parse(dic, e, index) # <<>>
         THEN LET op == Parse(dic, e, index)[1]
              IN <<[token |-> OperatorToken(op.symbol), charsRead |-> Len(op.symbol)]>>
    ELSE IF e[index + 1] \in {"(", ")", ","}
         THEN <<[token |-> PunctuationToken(e[index + 1]), charsRead |-> 1]>>
    ELSE ReadFunctionCompiled(e, index)

\* One iteration of the while loop of the compiled tokenize.
ScanStepCompiled(dic, e, sc) ==
    IF e[sc.i + 1] \in Whitespace THEN [sc EXCEPT !.i = sc.i + 1]
    ELSE LET info == ReadTokenCompiled(dic, e, sc.i)
         IN IF info = <<>> THEN [sc EXCEPT !.thrown = <<e[sc.i + 1]>>]
            ELSE [sc EXCEPT !.tokenList = Append(sc.tokenList, info[1].token),
                            !.spans = Append(sc.spans, <<sc.i, sc.i + info[1].charsRead>>),
                            !.i = sc.i + info[1].charsRead]

RECURSIVE ScanLoopCompiled(_, _, _)
\* The while (i < expr.length) loop of the compiled tokenize.
ScanLoopCompiled(dic, e, sc) ==
    IF sc.i >= Len(e) \/ sc.thrown # <<>> THEN sc
    ELSE ScanLoopCompiled(dic, e, ScanStepCompiled(dic, e, sc))

\* tokenize(expr) of the compiled script: the final scan state.
TokenizeCompiled(dic, e) == ScanLoopCompiled(dic, e, NewScan)

-----------------------------------------------------------------------------
(* ExprNode.evaluate.  A value is [kind, v]: kind "number" with the integer  *)
(* v, kind "outside" for a number this model does not represent (a fraction, *)
(* NaN, an infinity, a random number, an integer beyond TLC's range), or the *)
(* name of the error thrown.                                                 *)

\* The largest integer TLC represents.
IntLimit == 2^30 + (2^30 - 1)

Abs(a) == IF a < 0 THEN -a ELSE a

Num(v) == [kind |-> "number", v |-> v]

Outside == [kind |-> "outside", v |-> 0]

Thrown(err) == [kind |-> err, v |-> 0]

Times(a, b) ==
    IF a = 0 \/ b = 0 THEN Num(0)
    ELSE IF Abs(a) > IntLimit \div Abs(b) THEN Outside
    ELSE Num(a * b)

RECURSIVE PowerFrom(_, _, _)
\* acc times a to the power b, given up as soon as it leaves the range.
PowerFrom(acc, a, b) ==
    IF b = 0 THEN Num(acc)
    ELSE LET r == Times(acc, a)
         IN IF r.kind # "number" THEN r ELSE PowerFrom(r.v, a, b - 1)

\* Math.pow(a, b) for an integer b >= 0.
Power(a, b) ==
    IF a = 0 THEN Num(IF b = 0 THEN 1 ELSE 0)
    ELSE IF a = 1 THEN Num(1)
    ELSE IF a = -1 THEN Num(IF b % 2 = 0 THEN 1 ELSE -1)
    ELSE PowerFrom(1, a, b)

\* a % b of JavaScript: the result has the sign of the dividend.
Remainder(a, b) ==
    IF b = 0 THEN Outside
    ELSE LET m == Abs(a) % Abs(b) IN Num(IF a < 0 THEN -m ELSE m)

Quotient(a, b) ==
    IF b = 0 \/ Abs(a) % Abs(b) # 0 THEN Outside
    ELSE LET q == Abs(a) \div Abs(b)
         IN Num(IF (a < 0) # (b < 0) THEN -q ELSE q)

Plus(a, b) == IF Abs(a + b) > IntLimit THEN Outside ELSE Num(a + b)

\* func.apply(null, args) for the semantic function named sym; args are integers.
Apply(sym, args) ==
    CASE sym = "+" /\ Len(args) = 2 -> Plus(args[1], args[2])
      [] sym = "-" /\ Len(args) = 2 -> Plus(args[1], -args[2])
      [] sym = "*" /\ Len(args) = 2 -> Times(args[1], args[2])
      [] sym = "/" /\ Len(args) = 2 -> Quotient(args[1], args[2])
      [] sym = "%" /\ Len(args) = 2 -> Remainder(args[1], args[2])
      [] sym = "**" /\ Len(args) = 2 ->
            IF args[2] >= 0 THEN Power(args[1], args[2])
            ELSE IF args[1] = 1 THEN Num(1) ELSE Outside
      [] sym = "~" /\ Len(args) = 1 -> Num(-args[1])
      [] sym = "max" /\ Len(args) = 2 -> Num(IF args[1] > args[2] THEN args[1] ELSE args[2])
      [] sym = "min" /\ Len(args) = 2 -> Num(IF args[1] < args[2] THEN args[1] ELSE args[2])
      [] sym \in {"floor", "ceil", "round"} /\ Len(args) = 1 -> Num(args[1])
      [] OTHER -> Outside

RECURSIVE EvaluateReversed(_)
\* evaluate handing the values of the children to func in reverse order.
EvaluateReversed(node) ==
    IF node.token.type = "Number"
    THEN (IF node.token.scale = 0 THEN Num(node.token.num) ELSE Outside)
    ELSE IF node.token.type \notin {"Operator", "Function"}
         THEN Thrown("UnexpectedTokenType")
    ELSE IF ~node.hasChildren THEN Thrown("TypeError")
    ELSE LET n == Len(node.children)
             args == [k \in 1..n |-> EvaluateReversed(node.children[k])]
         IN IF \A k \in 1..n : args[k].kind = "number"
            THEN Apply(node.token.sym, [k \in 1..n |-> args[n + 1 - k].v])
            ELSE Outside

RECURSIVE Evaluate(_)
\* node.evaluate()
Evaluate(node) ==
    IF node.token.type = "Number"
    THEN (IF node.token.scale = 0 THEN Num(node.token.num) ELSE Outside)
    ELSE IF node.token.type \notin {"Operator", "Function"}
         THEN Thrown("UnexpectedTokenType")
    ELSE IF ~node.hasChildren THEN Thrown("TypeError")
    ELSE LET args == [k \in 1..Len(node.children) |-> Evaluate(node.children[k])]
             bad == {k \in 1..Len(args) : args[k].kind # "number"}
             first == CHOOSE k \in bad : \A j \in bad : k <= j
         IN IF bad = {} THEN Apply(node.token.sym, [k \in 1..Len(args) |-> args[k].v])
            ELSE IF \E k \in bad : args[k].kind # "outside"
                 THEN LET errs == {k \in bad : args[k].kind # "outside"}
                      IN args[CHOOSE k \in errs : \A j \in errs : k <= j]
                 ELSE Outside

-----------------------------------------------------------------------------
(* The inputs of AST.create that the model explores *)

MaxLen == 2

MaxOps == 2

Numbers == {2, 3, 4}

BinarySymbols == {"+", "-", "*", "/", "%", "**"}

OperatorSymbols == {BuiltinOperators[k].symbol : k \in 1..Len(BuiltinOperators)}

NumberTokens == {NumberToken(n) : n \in Numbers}

BinaryTokens == {OperatorToken(s) : s \in BinarySymbols}

Alphabet ==
    NumberTokens \cup {OperatorToken(s) : s \in OperatorSymbols}
    \cup {LeftParenToken, RightParenToken, SeparatorToken}
    \cup {FunctionToken(f) : f \in DOMAIN FunctionMap}

\* Every token sequence of at most MaxLen tokens.
ShortInputs == UNION {[1..k -> Alphabet] : k \in 0..MaxLen}

RECURSIVE Alternating(_)
\* n (op n)^k: numbers alternating with k binary operators.
Alternating(k) ==
    IF k = 0 THEN {<<n>> : n \in NumberTokens}
    ELSE {a \o <<o, n>> : a \in Alternating(k - 1), o \in BinaryTokens, n \in NumberTokens}

AlternatingInputs == UNION {Alternating(k) : k \in 0..MaxOps}

\* ~ n, n1 op ~ n2 and ~ n1 op n2.
UnaryInputs ==
    LET operands == {NumberToken(n) : n \in {2, 3, 5}}
    IN {<<OperatorToken("~"), n>> : n \in operands}
       \cup {<<n, o, OperatorToken("~"), m>> : n \in operands, o \in BinaryTokens, m \in operands}
       \cup {<<OperatorToken("~"), n, o, m>> : n \in operands, o \in BinaryTokens, m \in operands}

\* The expressions used inside parentheses and as arguments.
InnerExprs ==
    {<<NumberToken(n)>> : n \in {2, 3}}
    \cup {<<NumberToken(2), o, NumberToken(3)>> : o \in BinaryTokens}

\* What may stand before a parenthesis: nothing, n op, or the unary operator.
ParenPrefixes ==
    {<<>>, <<OperatorToken("~")>>} \cup {<<NumberToken(5), o>> : o \in BinaryTokens}

\* What may follow a parenthesis: nothing, or op n.
ParenSuffixes == {<<>>} \cup {<<o, NumberToken(4)>> : o \in BinaryTokens}

\* p ( e ) q
ParenTokens(p, e, q) == p \o <<LeftParenToken>> \o e \o <<RightParenToken>> \o q

ParenInputs ==
    {ParenTokens(p, e, q) : p \in ParenPrefixes, e \in InnerExprs, q \in ParenSuffixes}

RECURSIVE JoinArguments(_)
\* a1 , ... , an
JoinArguments(args) ==
    IF args = <<>> THEN <<>>
    ELSE IF Len(args) = 1 THEN args[1]
    ELSE args[1] \o <<SeparatorToken>> \o JoinArguments(Tail(args))

\* f ( a1 , ... , an )
CallTokens(f, args) ==
    <<FunctionToken(f), LeftParenToken>> \o JoinArguments(args) \o <<RightParenToken>>

\* The argument lists of a call of f: one inner expression per parameter.
ArgumentLists(f) == [1..FunctionMap[f] -> InnerExprs]

CallInputs == UNION {{CallTokens(f, args) : args \in ArgumentLists(f)} : f \in DOMAIN FunctionMap}

\* The tokens of (1+2  1+2)  +1  1,2  and  1 2.
MalformedInputs ==
    { <<LeftParenToken, NumberToken(1), OperatorToken("+"), NumberToken(2)>>,
      <<NumberToken(1), OperatorToken("+"), NumberToken(2), RightParenToken>>,
      <<OperatorToken("+"), NumberToken(1)>>,
      <<NumberToken(1), SeparatorToken, NumberToken(2)>>,
      <<NumberToken(1), NumberToken(2)>> }

\* The tokens of max(+,2) and max(2,*): an operator with no operand before it
\* meets a separator, or the closing parenthesis.
SeparatorInputs ==
    { <<FunctionToken("max"), LeftParenToken, OperatorToken("+"), SeparatorToken,
        NumberToken(2), RightParenToken>>,
      <<FunctionToken("max"), LeftParenToken, NumberToken(2), SeparatorToken,
        OperatorToken("*"), RightParenToken>> }

Inputs ==
    ShortInputs \cup AlternatingInputs \cup UnaryInputs \cup ParenInputs
    \cup CallInputs \cup MalformedInputs \cup SeparatorInputs

-----------------------------------------------------------------------------
(* AST.create as a state machine: one action per case of the switch, one    *)
(* for the code after the for loop.                                        *)

Current == [exprStack |-> exprStack, opStack |-> opStack, error |-> ""]

\* The token the for loop is at.
Token == tokens[idx + 1]

AtToken(type) == pc = "loop" /\ idx < Len(tokens) /\ Token.type = type

\* The variables after an iteration of the for loop that ends in state st.
Advance(st) ==
    /\ exprStack' = st.exprStack
    /\ opStack' = st.opStack
    /\ error' = st.error
    /\ pc' = IF st.error # "" THEN "thrown" ELSE "loop"
    /\ idx' = idx + 1
    /\ UNCHANGED <<tokens, result, regVars, tokVars>>

NumberCase ==
    /\ AtToken("Number")
    /\ Advance(ProcessToken(Current, Token))

LeftParenthesisCase ==
    /\ AtToken("LeftParenthesis")
    /\ Advance(ProcessToken(Current, Token))

RightParenthesisCase ==
    /\ AtToken("RightParenthesis")
    /\ Advance(ProcessToken(Current, Token))

OperatorCase ==
    /\ AtToken("Operator")
    /\ Advance(ProcessToken(Current, Token))

ArgumentSeparatorCase ==
    /\ AtToken("ArgumentSeparator")
    /\ Advance(ProcessToken(Current, Token))

FunctionCase ==
    /\ AtToken("Function")
    /\ Advance(ProcessToken(Current, Token))

\* Lines 127-137: drain the operator stack and return exprStack.pop().
EndOfInput ==
    /\ pc = "loop"
    /\ idx = Len(tokens)
    /\ LET st == DrainLoop(Current)
       IN /\ opStack' = st.opStack
          /\ error' = st.error
          /\ pc' = IF st.error # "" THEN "thrown" ELSE "returned"
          /\ result' = IF st.error # "" THEN <<>> ELSE ReturnValue(st)
          /\ exprStack' = IF st.error # "" \/ st.exprStack = <<>>
                          THEN st.exprStack ELSE Pop(st.exprStack)
    /\ UNCHANGED <<tokens, idx, regVars, tokVars>>

RegIdle ==
    /\ dictionary = BuiltinDictionary
    /\ registered = <<>>
    /\ regError = FALSE
    /\ parsed = <<>>

TokIdle ==
    /\ expr = <<>>
    /\ i = 0
    /\ tokenList = <<>>
    /\ spans = <<>>
    /\ tpc = "idle"
    /\ terror = <<>>

AstIdle ==
    /\ tokens = <<>>
    /\ idx = 0
    /\ exprStack = <<>>
    /\ opStack = <<>>
    /\ pc = "idle"
    /\ error = ""
    /\ result = <<>>

Init ==
    /\ tokens \in Inputs
    /\ idx = 0
    /\ exprStack = <<>>
    /\ opStack = <<>>
    /\ pc = "loop"
    /\ error = ""
    /\ result = <<>>
    /\ RegIdle
    /\ TokIdle

Next ==
    \/ NumberCase
    \/ LeftParenthesisCase
    \/ RightParenthesisCase
    \/ OperatorCase
    \/ ArgumentSeparatorCase
    \/ FunctionCase
    \/ EndOfInput

Spec == Init /\ [][Next]_vars

-----------------------------------------------------------------------------
(* The registry as a state machine: constructor calls in any order, and     *)
(* calls of Operator.parse between them.                                    *)

MaxRegistrations == 3

MaxText == 3

\* The operators a constructor call may create; two of them share a symbol.
CandidateOperators ==
    { Operator(1, "*", TRUE, 2),
      Operator(2, "**", FALSE, 2),
      Operator(3, "***", FALSE, 2),
      Operator(0, "*2", TRUE, 2),
      Operator(4, "*", FALSE, 1) }

TextChars == {"2", "*"}

Texts == UNION {[1..k -> TextChars] : k \in 1..MaxText}

\* new Operator(...): the constructor stores the fields and calls register.
NewOperator ==
    /\ Len(registered) < MaxRegistrations
    /\ \E op \in CandidateOperators :
          LET r == Register(dictionary, op)
          IN /\ dictionary' = r.dic
             /\ regError' = r.threw
             /\ registered' = Append(registered, op)
    /\ parsed' = <<>>
    /\ UNCHANGED <<astVars, tokVars>>

\* A parse that moves the entry it matched in to the front of the dictionary.
ParseCallMovingEntry ==
    /\ parsed = <<>>
    /\ \E text \in Texts :
          \E at \in 0..Len(text) - 1 :
             LET op == Parse(dictionary, text, at)
                 hit == IF op = <<>> THEN 0 ELSE FindEntry(dictionary, Len(op[1].symbol))
             IN /\ parsed' = <<[text |-> text, at |-> at, op |-> op]>>
                /\ dictionary' =
                      IF hit = 0 THEN dictionary
                      ELSE <<dictionary[hit]>> \o SubSeq(dictionary, 1, hit - 1)
                           \o SubSeq(dictionary, hit + 1, Len(dictionary))
    /\ UNCHANGED <<registered, regError, astVars, tokVars>>

\* Operator.parse(text, at); the model holds one result at a time.
ParseCall ==
    /\ parsed = <<>>
    /\ \E text \in Texts :
          \E at \in 0..Len(text) - 1 :
             parsed' = <<[text |-> text, at |-> at, op |-> Parse(dictionary, text, at)]>>
    /\ UNCHANGED <<dictionary, registered, regError, astVars, tokVars>>

InitRegistry ==
    /\ dictionary = <<>>
    /\ registered = <<>>
    /\ regError = FALSE
    /\ parsed = <<>>
    /\ AstIdle
    /\ TokIdle

NextRegistry == NewOperator \/ ParseCall

SpecRegistry == InitRegistry /\ [][NextRegistry]_vars

-----------------------------------------------------------------------------
(* tokenize as a state machine: one action per way an iteration of the     *)
(* while loop can go, one for the return.                                  *)

MaxLexemes == 3

\* The pieces the explored sources are made of.
Lexemes ==
    { <<"2">>, <<"5">>, <<".">>, <<"+">>, <<"*">>, <<"~">>, <<"(">>, <<")">>, <<",">>,
      <<"m", "a", "x">>, <<"r", "a", "n", "d">>, <<" ">>, <<"\n">>, <<"@">>, <<"x">> }

RECURSIVE Concat(_)
Concat(parts) == IF parts = <<>> THEN <<>> ELSE Head(parts) \o Concat(Tail(parts))

\* 1.2.3 : two runs of digits, the second begun by a decimal mark.
NumberSources == {<<"1", ".", "2", ".", "3">>}

Sources ==
    {Concat(parts) : parts \in UNION {[1..k -> Lexemes] : k \in 0..MaxLexemes}}
    \cup NumberSources

Scan == [i |-> i, tokenList |-> tokenList, spans |-> spans, thrown |-> <<>>]

\* tokenize is in its loop at a character that is not whitespace and that
\* the recognizer by answers for.
Reading(by) ==
    /\ tpc = "scan"
    /\ i < Len(expr)
    /\ expr[i + 1] \notin Whitespace
    /\ Recognizer(dictionary, expr, i) = by

\* The variables after an iteration of the while loop that ends in sc.
Scanned(sc) ==
    /\ i' = sc.i
    /\ tokenList' = sc.tokenList
    /\ spans' = sc.spans
    /\ terror' = sc.thrown
    /\ tpc' = IF sc.thrown # <<>> THEN "thrown" ELSE "scan"
    /\ UNCHANGED <<expr, astVars, regVars>>

SkipWhitespace ==
    /\ tpc = "scan"
    /\ i < Len(expr)
    /\ expr[i + 1] \in Whitespace
    /\ Scanned(ScanStep(dictionary, expr, Scan))

ReadNumberToken ==
    /\ Reading("number")
    /\ Scanned(ScanStep(dictionary, expr, Scan))

ReadOperatorToken ==
    /\ Reading("operator")
    /\ Scanned(ScanStep(dictionary, expr, Scan))

ReadPunctuationToken ==
    /\ Reading("punctuation")
    /\ Scanned(ScanStep(dictionary, expr, Scan))

ReadFunctionToken ==
    /\ Reading("function")
    /\ Scanned(ScanStep(dictionary, expr, Scan))

\* throw new Error("Unexpected token or symbol: ...")
UnexpectedToken ==
    /\ Reading("none")
    /\ Scanned(ScanStep(dictionary, expr, Scan))

\* return tokenList
ReturnTokens ==
    /\ tpc = "scan"
    /\ i >= Len(expr)
    /\ tpc' = "returned"
    /\ UNCHANGED <<expr, i, tokenList, spans, terror, astVars, regVars>>

InitTokenizer ==
    /\ expr \in Sources
    /\ i = 0
    /\ tokenList = <<>>
    /\ spans = <<>>
    /\ tpc = "scan"
    /\ terror = <<>>
    /\ RegIdle
    /\ AstIdle

NextTokenizer ==
    \/ SkipWhitespace
    \/ ReadNumberToken
    \/ ReadOperatorToken
    \/ ReadPunctuationToken
    \/ ReadFunctionToken
    \/ UnexpectedToken
    \/ ReturnTokens

SpecTokenizer == InitTokenizer /\ [][NextTokenizer]_vars

-----------------------------------------------------------------------------
(* Reference definitions used to state the claims about AST.create *)

Done == pc \in {"returned", "thrown"}

RECURSIVE InOrder(_)
\* The tokens of a tree read left to right, a unary operator before its operand.
InOrder(node) ==
    IF ~node.hasChildren \/ node.children = <<>> THEN <<node.token>>
    ELSE IF Len(node.children) = 1 THEN <<node.token>> \o InOrder(node.children[1])
    ELSE InOrder(node.children[1]) \o <<node.token>> \o InOrder(node.children[2])

Precedence(token) == OperatorOf(token.sym).precedence

RECURSIVE TighterBelow(_)
\* No operator of a tree has an operator of lower precedence among its children.
TighterBelow(node) ==
    \A k \in 1..Len(node.children) :
        /\ TighterBelow(node.children[k])
        /\ (node.token.type = "Operator" /\ node.children[k].token.type = "Operator")
              => Precedence(node.children[k].token) >= Precedence(node.token)

RECURSIVE Grouping(_)
\* The textbook grouping of n (op n)^k: split at the operator of lowest
\* precedence, the last such when it is left-associative, the first otherwise.
Grouping(toks) ==
    IF Len(toks) = 1 THEN Leaf(toks[1])
    ELSE LET ops == {k \in 1..Len(toks) : toks[k].type = "Operator"}
             low == {k \in ops : \A j \in ops : Precedence(toks[k]) <= Precedence(toks[j])}
             last == CHOOSE k \in low : \A j \in low : j <= k
             first == CHOOSE k \in low : \A j \in low : k <= j
             at == IF OperatorOf(toks[last].sym).isLeftAssociative THEN last ELSE first
         IN Node(toks[at], <<Grouping(SubSeq(toks, 1, at - 1)),
                             Grouping(SubSeq(toks, at + 1, Len(toks)))>>)

RECURSIVE Substitute(_, _, _)
\* The tree node with every leaf holding token replaced by the tree by.
Substitute(node, token, by) ==
    IF ~node.hasChildren THEN (IF node.token = token THEN by ELSE node)
    ELSE Node(node.token,
              [k \in 1..Len(node.children) |-> Substitute(node.children[k], token, by)])

\* A number that stands for a parenthesised operand.
Hole == NumberToken(0)

Tree(toks) == Create(toks).result[1]

\* The tree of p ( e ) q: the tree of p n q with the tree of e in place of n.
ParenTree(p, e, q) == Substitute(Tree(p \o <<Hole>> \o q), Hole, Tree(e))

Tokens(text) ==
    [k \in 1..Len(text) |->
        IF text[k] \in OperatorSymbols THEN OperatorToken(text[k])
        ELSE IF text[k] = "(" THEN LeftParenToken
        ELSE IF text[k] = ")" THEN RightParenToken
        ELSE IF text[k] = "," THEN SeparatorToken
        ELSE IF text[k] \in DOMAIN FunctionMap THEN FunctionToken(text[k])
        ELSE NumberToken(CHOOSE n \in 0..9 : ToString(n) = text[k])]

-----------------------------------------------------------------------------
(* Claims about AST.create *)

\* C1: for every well-formed e, AST.create on ( e ), also when operators
\* follow and also when nothing is pending beneath the parenthesis, returns a
\* tree in which the parenthesised part is one operand holding the tree of e;
\* (2+3)*4 evaluates to 20.
C1_ParenthesisedGrouping ==
    Done =>
       /\ \A p \in ParenPrefixes, e \in InnerExprs, q \in ParenSuffixes :
             tokens = ParenTokens(p, e, q) =>
                 pc = "returned" /\ result = <<ParenTree(p, e, q)>>
       /\ tokens = Tokens(<<"(", "2", "+", "3", ")", "*", "4">>) =>
             pc = "returned" /\ result # <<>> /\ Evaluate(result[1]) = Num(20)

\* C2: on numbers alternating with binary operators AST.create returns the
\* tree that reads back as the input and in which the operator of higher
\* precedence binds tighter: n1 op1 n2 op2 n3 gives op1(n1, op2(n2, n3)) when
\* op2 is of higher precedence and op2(op1(n1, n2), n3) when op1 is; the tree
\* is the textbook grouping of the input, and 2+3*4 evaluates to 14.
C2_Precedence ==
    (Done /\ tokens \in AlternatingInputs) =>
       /\ pc = "returned"
       /\ result # <<>>
       /\ InOrder(result[1]) = tokens
       /\ TighterBelow(result[1])
       /\ result[1] = Grouping(tokens)
       /\ (Len(tokens) = 5 /\ Precedence(tokens[4]) > Precedence(tokens[2])) =>
             result[1] = Node(tokens[2],
                              <<Leaf(tokens[1]),
                                Node(tokens[4], <<Leaf(tokens[3]), Leaf(tokens[5])>>)>>)
       /\ (Len(tokens) = 5 /\ Precedence(tokens[2]) > Precedence(tokens[4])) =>
             result[1] = Node(tokens[4],
                              <<Node(tokens[2], <<Leaf(tokens[1]), Leaf(tokens[3])>>),
                                Leaf(tokens[5])>>)
       /\ tokens = Tokens(<<"2", "+", "3", "*", "4">>) => Evaluate(result[1]) = Num(14)

\* C2 witness: 2+3*4 has been parsed into +(2, *(3, 4)).
C2_Witness ==
    /\ pc = "returned"
    /\ tokens = Tokens(<<"2", "+", "3", "*", "4">>)
    /\ result = <<Node(OperatorToken("+"),
                       <<Leaf(NumberToken(2)),
                         Node(OperatorToken("*"), <<Leaf(NumberToken(3)), Leaf(NumberToken(4))>>)>>)>>

\* The number of operators on top of stack that the incoming operator op is
\* to pop: the top is popped while it is an Operator and op is left-associative
\* with precedence <= the top's, or right-associative with precedence < it.
RECURSIVE PopCount(_, _)
PopCount(stack, op) ==
    IF stack = <<>> THEN 0
    ELSE LET top == Peek(stack)
         IN IF /\ top.type = "Operator"
               /\ \/ op.isLeftAssociative /\ op.precedence <= Precedence(top)
                  \/ ~op.isLeftAssociative /\ op.precedence < Precedence(top)
            THEN 1 + PopCount(Pop(stack), op)
            ELSE 0

C4_FunctionCall ==
    Done =>
       \A f \in DOMAIN FunctionMap :
          \A args \in ArgumentLists(f) :
             tokens = CallTokens(f, args) =>
                /\ pc = "returned"
                /\ result = <<Node(FunctionToken(f),
                                   [k \in 1..FunctionMap[f] |-> Tree(args[k])])>>

\* C8: the unary operator ~ takes exactly the operand that follows it and
\* binds tighter than every binary operator: ~ n is ~(n), n1 op ~ n2 is
\* op(n1, ~(n2)), ~ n1 op n2 is op(~(n1), n2), ~ ( e ) is ~(tree of e);
\* ~5 is -5 and 3-~2 is 5.
C8_UnaryOperator ==
    /\ Done =>
          \A e \in InnerExprs :
             tokens = ParenTokens(<<OperatorToken("~")>>, e, <<>>) =>
                pc = "returned" /\ result = <<Node(OperatorToken("~"), <<Tree(e)>>)>>
    /\ (Done /\ tokens \in UnaryInputs) =>
       LET neg == OperatorToken("~")
       IN /\ pc = "returned"
          /\ Len(tokens) = 2 => result = <<Node(neg, <<Leaf(tokens[2])>>)>>
          /\ (Len(tokens) = 4 /\ tokens[3] = neg) =>
                result = <<Node(tokens[2],
                                <<Leaf(tokens[1]), Node(neg, <<Leaf(tokens[4])>>)>>)>>
          /\ (Len(tokens) = 4 /\ tokens[1] = neg) =>
                result = <<Node(tokens[3],
                                <<Node(neg, <<Leaf(tokens[2])>>), Leaf(tokens[4])>>)>>
          /\ tokens = Tokens(<<"~", "5">>) => Evaluate(result[1]) = Num(-5)
          /\ tokens = Tokens(<<"3", "-", "~", "2">>) => Evaluate(result[1]) = Num(5)

\* C8 witness: 3-~2 has been parsed into -(3, ~(2)).
C8_Witness ==
    /\ pc = "returned"
    /\ tokens = Tokens(<<"3", "-", "~", "2">>)
    /\ result = <<Node(OperatorToken("-"),
                       <<Leaf(NumberToken(3)),
                         Node(OperatorToken("~"), <<Leaf(NumberToken(2))>>)>>)>>

NoLeftParen(stack) == \A k \in 1..Len(stack) : stack[k].type # "LeftParenthesis"

\* C9: whenever AST.create processes an ArgumentSeparator while the operator
\* stack holds no left parenthesis, the parse fails with MisplacedSeparator
\* and returns no tree.
C9_MisplacedSeparator ==
    [][(ArgumentSeparatorCase /\ NoLeftParen(opStack)) =>
          (pc' = "thrown" /\ error' = "MisplacedSeparator" /\ result' = <<>>)]_vars

\* C10: AST.create fails with EmptyExpression whenever zero or more than one
\* node is on the output stack once the operator stack is drained, and
\* returns a tree only when exactly one node remains.
C10_EmptyExpression ==
    [][(EndOfInput /\ DrainLoop(Current).error = "") =>
          IF Len(DrainLoop(Current).exprStack) = 1
          THEN pc' = "returned" /\ result' = <<DrainLoop(Current).exprStack[1]>>
          ELSE pc' = "thrown" /\ error' = "EmptyExpression"]_vars

\* An operator or function token is on top of the operator stack and the
\* expression stack holds fewer nodes than its arity.
TopLacksOperands ==
    /\ opStack # <<>>
    /\ Peek(opStack).type \in {"Operator", "Function"}
    /\ ArgCount(Peek(opStack)) > Len(exprStack)

\* The step takes the top of the operator stack off to build a node.
TakesTop ==
    \/ RightParenthesisCase
    \/ ArgumentSeparatorCase
    \/ OperatorCase /\ ~OperatorBreaks(OperatorOf(Token.sym), Peek(opStack))
    \/ EndOfInput

\* C11: whenever AST.create takes an Operator or Function token off the
\* operator stack to build a node (at a right parenthesis, at an argument
\* separator, when a later operator pops it, or at end of input) while the
\* expression stack holds fewer nodes than the token's arity, the parse fails
\* with "Not enough expressions on the stack." and returns no tree.
C11_InsufficientOperands ==
    [][(TopLacksOperands /\ TakesTop) =>
          (pc' = "thrown" /\ error' = "NotEnoughExpressions" /\ result' = <<>>)]_vars

RECURSIVE Reducible(_, _)
\* Every token of the stack, taken from the top down, finds as many nodes as
\* its arity among n nodes; each reduction leaves one node in their place.
Reducible(stack, n) ==
    \/ stack = <<>>
    \/ /\ Peek(stack).type \in {"Operator", "Function"}
       /\ ArgCount(Peek(stack)) <= n
       /\ Reducible(Pop(stack), n - ArgCount(Peek(stack)) + 1)

\* C12: whenever AST.create processes a right parenthesis and the operator
\* stack is empty or empties, every reduction on the way having enough
\* operands, before a left parenthesis is found, the parse fails with
\* "Mismatched right parenthesis" and returns no tree.
C12_MismatchedRightParen ==
    [][(RightParenthesisCase /\ NoLeftParen(opStack)
                             /\ Reducible(opStack, Len(exprStack))) =>
          (pc' = "thrown" /\ error' = "MismatchedRightParen" /\ result' = <<>>)]_vars

\* 1+2) : the '+' is reduced, the stack empties, the parse has thrown.
C12_Witness ==
    /\ tokens = <<NumberToken(1), OperatorToken("+"), NumberToken(2), RightParenToken>>
    /\ pc = "thrown"
    /\ error = "MismatchedRightParen"
    /\ opStack = <<>>
    /\ exprStack = <<Node(OperatorToken("+"), <<Leaf(NumberToken(1)), Leaf(NumberToken(2))>>)>>
    /\ result = <<>>

HasLeftParen(stack) == ~NoLeftParen(stack)

\* The tokens above the topmost left parenthesis of the stack.
AboveLeftParen(stack) ==
    LET top == CHOOSE k \in 1..Len(stack) :
                   /\ stack[k].type = "LeftParenthesis"
                   /\ \A j \in (k + 1)..Len(stack) : stack[j].type # "LeftParenthesis"
    IN SubSeq(stack, top + 1, Len(stack))

\* C13 as stated: whenever all tokens have been processed and a left
\* parenthesis is still on the operator stack when the stack is drained,
\* AST.create fails with "Mismatched left parenthesis" and returns no tree.
C13_MismatchedLeftParen ==
    [][(EndOfInput /\ HasLeftParen(opStack)) =>
          (pc' = "thrown" /\ error' = "MismatchedLeftParen" /\ result' = <<>>)]_vars

\* C13 amended: whenever all tokens have been processed and a left
\* parenthesis is still on the operator stack when the stack is drained,
\* AST.create returns no tree; it fails with "Mismatched left parenthesis"
\* when every token above the topmost left parenthesis has enough operands to
\* be reduced, and with "Not enough expressions on the stack." otherwise.
C13_MismatchedLeftParenAmended ==
    [][(EndOfInput /\ HasLeftParen(opStack)) =>
          /\ pc' = "thrown"
          /\ result' = <<>>
          /\ error' = IF Reducible(AboveLeftParen(opStack), Len(exprStack))
                      THEN "MismatchedLeftParen"
                      ELSE "NotEnoughExpressions"]_vars

\* (1+2 : the '+' is reduced, the drain meets the parenthesis and throws.
C13_Witness ==
    /\ tokens = <<LeftParenToken, NumberToken(1), OperatorToken("+"), NumberToken(2)>>
    /\ pc = "thrown"
    /\ error = "MismatchedLeftParen"
    /\ opStack = <<LeftParenToken>>
    /\ exprStack = <<Node(OperatorToken("+"), <<Leaf(NumberToken(1)), Leaf(NumberToken(2))>>)>>
    /\ result = <<>>

RECURSIVE WellFormed(_)
\* Every node of the tree that holds an Operator or Function token has as
\* many children as the token's arity, and every Number node is a leaf.
WellFormed(node) ==
    IF node.token.type = "Number" THEN node.children = <<>>
    ELSE /\ node.hasChildren
         /\ Len(node.children) = ArgCount(node.token)
         /\ \A k \in 1..Len(node.children) : WellFormed(node.children[k])

\* C15: in every tree returned by AST.create, every node holding an Operator
\* or Function token has a children sequence whose length equals the token's
\* arity, and every Number node is a leaf.
C15_ArityInvariant ==
    (pc = "returned" /\ result # <<>>) => WellFormed(result[1])

RECURSIVE Nodes(_)
\* The nodes of a tree.
Nodes(node) ==
    {node} \cup UNION {Nodes(node.children[k]) : k \in 1..Len(node.children)}

RECURSIVE PowerIs(_, _, _)
\* r is a to the power b, for b >= 0, told by dividing r down.
PowerIs(a, b, r) ==
    IF b = 0 THEN r = 1
    ELSE IF a = 0 THEN r = 0
    ELSE IF Abs(a) = 1 THEN r = (IF a = 1 \/ b % 2 = 0 THEN 1 ELSE -1)
    ELSE /\ r # 0
         /\ Abs(r) % Abs(a) = 0
         /\ PowerIs(a, b - 1,
                    IF (r < 0) = (a < 0) THEN Abs(r) \div Abs(a) ELSE -(Abs(r) \div Abs(a)))

\* r is what the semantic function named sym makes of the arguments a and b
\* in this order (b is unused by a function of one argument).
IsResult(sym, a, b, r) ==
    CASE sym = "+" -> r = a + b
      [] sym = "-" -> r + b = a
      [] sym = "*" -> r = a * b
      [] sym = "/" -> b # 0 /\ r * b = a
      [] sym = "%" -> /\ b # 0
                      /\ Abs(r) < Abs(b)
                      /\ r = 0 \/ (r < 0) = (a < 0)
                      /\ (a - r) % Abs(b) = 0
      [] sym = "**" -> IF b >= 0 THEN PowerIs(a, b, r) ELSE a = 1 /\ r = 1
      [] sym = "~" -> r + a = 0
      [] sym = "max" -> r \in {a, b} /\ r >= a /\ r >= b
      [] sym = "min" -> r \in {a, b} /\ r <= a /\ r <= b
      [] OTHER -> r = a

\* Small arguments on which the result is an integer within range.
SmallArguments(sym, a, b) ==
    /\ sym \in {"+", "-", "*", "~", "max", "min"}
    /\ Abs(a) <= 1000
    /\ Abs(b) <= 1000

\* C18: evaluate on a Number leaf returns the stored value; on an Operator or
\* Function node whose subtree satisfies the arity invariant it returns the
\* node's semantic function applied to the values of the children in their
\* order, the first child as the first argument.
C18_Evaluation ==
    (pc = "returned" /\ result # <<>> /\ WellFormed(result[1])) =>
       \A node \in Nodes(result[1]) :
          IF node.token.type = "Number"
          THEN Evaluate(node) = Num(node.token.num)
          ELSE LET n == Len(node.children)
                   vals == [k \in 1..n |-> Evaluate(node.children[k])]
               IN (n >= 1 /\ \A k \in 1..n : vals[k].kind = "number") =>
                     LET a == vals[1].v
                         b == vals[n].v
                         r == Evaluate(node)
                     IN /\ r.kind \in {"number", "outside"}
                        /\ r.kind = "number" => IsResult(node.token.sym, a, b, r.v)
                        /\ SmallArguments(node.token.sym, a, b) => r.kind = "number"

\* 3-4 has been parsed and its tree evaluates to -1, not to 1.
C18_Witness ==
    /\ tokens = <<NumberToken(3), OperatorToken("-"), NumberToken(4)>>
    /\ pc = "returned"
    /\ result # <<>>
    /\ WellFormed(result[1])
    /\ Evaluate(result[1]) = Num(-1)

\* C21: popOperator, handed a stack whose top token finds enough nodes,
\* removes exactly that token from the operator stack and exactly arity
\* nodes from the expression stack, and pushes one node whose children are
\* those nodes in the order they were pushed (the node on top is the last
\* child), so the expression stack shrinks by arity - 1; 2-3 yields -(2, 3).
C21_ReductionStep ==
    /\ (pc = "loop" /\ opStack # <<>>
                    /\ Peek(opStack).type \in {"Operator", "Function"}
                    /\ ArgCount(Peek(opStack)) <= Len(exprStack)) =>
          LET arity == ArgCount(Peek(opStack))
              n == Len(exprStack)
              st == PopOperator(Current)
              built == st.exprStack[n - arity + 1]
          IN /\ st.error = ""
             /\ Len(st.opStack) = Len(opStack) - 1
             /\ \A k \in 1..Len(st.opStack) : st.opStack[k] = opStack[k]
             /\ Len(st.exprStack) = n - (arity - 1)
             /\ \A k \in 1..n - arity : st.exprStack[k] = exprStack[k]
             /\ built.token = Peek(opStack)
             /\ built.hasChildren
             /\ Len(built.children) = arity
             /\ \A k \in 1..arity : built.children[k] = exprStack[n - arity + k]
    /\ (pc = "returned"
          /\ tokens = <<NumberToken(2), OperatorToken("-"), NumberToken(3)>>) =>
          result = <<Node(OperatorToken("-"), <<Leaf(NumberToken(2)), Leaf(NumberToken(3))>>)>>

\* 2-3 has been parsed: the '-' was reduced at end of input into -(2, 3).
C21_Witness ==
    /\ tokens = <<NumberToken(2), OperatorToken("-"), NumberToken(3)>>
    /\ pc = "returned"
    /\ opStack = <<>>
    /\ exprStack = <<>>
    /\ result = <<Node(OperatorToken("-"), <<Leaf(NumberToken(2)), Leaf(NumberToken(3))>>)>>

-----------------------------------------------------------------------------
(* Claims about the registry and the tokenizer *)

\* The symbols registered so far.
RegisteredSymbols == {registered[k].symbol : k \in 1..Len(registered)}

\* The registered symbols that are a prefix of text at index at.
PrefixesAt(text, at) ==
    {sym \in RegisteredSymbols :
        /\ at + Len(sym) <= Len(text)
        /\ Str(SubSeq(text, at + 1, at + Len(sym))) = sym}

\* C6: whatever the order of registration, Operator.parse returns the longest
\* registered symbol that is a prefix of the text at the position, null when
\* there is none; with * and ** registered, 2**3 tokenizes to [2, **, 3].
C6_LongestMatch ==
    /\ parsed # <<>> =>
          LET found == PrefixesAt(parsed[1].text, parsed[1].at)
          IN IF found = {} THEN parsed[1].op = <<>>
             ELSE /\ parsed[1].op # <<>>
                  /\ parsed[1].op[1].symbol \in found
                  /\ \A sym \in found : Len(sym) <= Len(parsed[1].op[1].symbol)
    /\ {"*", "**"} \subseteq RegisteredSymbols =>
          Tokenize(dictionary, <<"2", "*", "*", "3">>).tokenList =
              <<NumberToken(2), OperatorToken("**"), NumberToken(3)>>

\* C6 witness: * was registered before **, and parse at the ** of 2** has
\* returned the operator **.
C6_Witness ==
    /\ Len(registered) >= 2
    /\ registered[1].symbol = "*"
    /\ registered[2].symbol = "**"
    /\ parsed # <<>>
    /\ parsed[1].text = <<"2", "*", "*">>
    /\ parsed[1].at = 1
    /\ parsed[1].op # <<>>
    /\ parsed[1].op[1].symbol = "**"

\* The entries of dic whose map holds the symbol.
EntriesOf(dic, sym) == {k \in 1..Len(dic) : sym \in DOMAIN dic[k].opMap}

\* The symbols dic maps, and the operators it maps a symbol to.
DictionarySymbols(dic) == UNION {DOMAIN dic[k].opMap : k \in 1..Len(dic)}

Lookup(dic, sym) == {dic[k].opMap[sym] : k \in EntriesOf(dic, sym)}

\* C16: after any sequence of operator registrations, registering an operator
\* whose symbol is already registered throws and leaves the registry
\* unchanged (lookup still returns the earlier operator), registering a new
\* symbol adds exactly that one operator, and no symbol is ever mapped to two
\* operators.
C16_DuplicateSymbol ==
    [][NewOperator =>
          LET op == Peek(registered')
              before == DictionarySymbols(dictionary)
          IN /\ IF op.symbol \in before
                THEN /\ regError'
                     /\ dictionary' = dictionary
                     /\ Lookup(dictionary', op.symbol) = Lookup(dictionary, op.symbol)
                ELSE /\ ~regError'
                     /\ DictionarySymbols(dictionary') = before \cup {op.symbol}
                     /\ Lookup(dictionary', op.symbol) = {op}
                     /\ \A sym \in before : Lookup(dictionary', sym) = Lookup(dictionary, sym)
             /\ \A sym \in DictionarySymbols(dictionary') :
                   /\ Cardinality(EntriesOf(dictionary', sym)) = 1
                   /\ Cardinality(Lookup(dictionary', sym)) = 1]_vars

\* The left-associative '*' is registered, then a unary '*' is refused.
C16_Witness ==
    /\ registered = <<Operator(1, "*", TRUE, 2), Operator(4, "*", FALSE, 1)>>
    /\ regError
    /\ dictionary = <<[symbolLength |-> 1, opMap |-> ("*" :> Operator(1, "*", TRUE, 2))]>>

Identifier(e, at) ==
    IF ~IsAlphabetic(e, at) THEN <<>>
    ELSE SubSeq(e, at + 1, NameEnd(e, at + 1))

\* C5: at every position where tokenize reads a token and a maximal run of a
\* letter followed by letters and digits spells a registered function name,
\* it emits one Function token for that function and consumes exactly the name.
C5_FunctionNameRecognition ==
    [][(/\ tpc = "scan"
        /\ i < Len(expr)
        /\ Str(Identifier(expr, i)) \in DOMAIN FunctionMap)
          => /\ tpc' = "scan"
             /\ tokenList' = Append(tokenList, FunctionToken(Str(Identifier(expr, i))))
             /\ i' = i + Len(Identifier(expr, i))]_tokVars

\* The four recognizers as their contracts describe them, at index at of e:
\* a run of digits with at most one '.' that holds a digit, a registered
\* operator symbol, a punctuation character, a registered function name.
NumberAt(e, at) ==
    \/ e[at + 1] \in Digits
    \/ e[at + 1] = "." /\ at + 1 < Len(e) /\ e[at + 2] \in Digits

OperatorAt(e, at) ==
    \E k \in 1..Len(BuiltinOperators) :
        LET sym == BuiltinOperators[k].symbol
        IN at + Len(sym) <= Len(e) /\ Str(SubSeq(e, at + 1, at + Len(sym))) = sym

PunctuationAt(e, at) == e[at + 1] \in {"(", ")", ","}

FunctionAt(e, at) == Str(Identifier(e, at)) \in DOMAIN FunctionMap

NoRecognizerAt(e, at) ==
    ~NumberAt(e, at) /\ ~OperatorAt(e, at) /\ ~PunctuationAt(e, at) /\ ~FunctionAt(e, at)

\* C14: tokenize throws "Unexpected token or symbol", naming the character at
\* the failing position, exactly when it reaches a non-whitespace position at
\* which none of the number, operator, punctuation and function-name
\* recognizers matches; it then returns no token sequence.
C14_UnrecognizedToken ==
    [][(tpc = "scan" /\ i < Len(expr) /\ expr[i + 1] \notin Whitespace) =>
          /\ (tpc' = "thrown") <=> NoRecognizerAt(expr, i)
          /\ (tpc' = "thrown") => (terror' = <<expr[i + 1]>> /\ i' = i)]_tokVars

\* The n characters of e from index at on are digits and decimal marks,
\* with at most one decimal mark.
IsRun(e, at, n) ==
    /\ at + n <= Len(e)
    /\ \A k \in at + 1..at + n : e[k] \in Digits \cup {"."}
    /\ Cardinality({k \in at + 1..at + n : e[k] = "."}) <= 1

\* The length of the maximal run at index at.
RunLength(e, at) ==
    CHOOSE n \in 0..Len(e) - at : IsRun(e, at, n) /\ ~IsRun(e, at, n + 1)

HasDigit(e, at, n) == \E k \in at + 1..at + n : e[k] \in Digits

\* C17: at any position, readNumber consumes the maximal run of digits with
\* at most one '.', reports no number when the run holds no digit, and
\* otherwise emits one Number token whose consumed length is the length of
\* the run; tokenize of 1.2.3 reads the runs 1.2 and .3 .
C17_NumberLiteral ==
    /\ (tpc = "scan" /\ i = 0) =>
          \A at \in 0..Len(expr) - 1 :
             LET n == RunLength(expr, at)
                 info == ReadNumber(expr, at)
             IN IF HasDigit(expr, at, n)
                THEN /\ info # <<>>
                     /\ info[1].charsRead = n
                     /\ info[1].token.type = "Number"
                ELSE info = <<>>
    /\ \A k \in 1..Len(tokenList) :
          tokenList[k].type = "Number" =>
             /\ spans[k][2] = spans[k][1] + RunLength(expr, spans[k][1])
             /\ HasDigit(expr, spans[k][1], spans[k][2] - spans[k][1])
    /\ (tpc = "returned" /\ expr \in NumberSources) =>
          (spans = <<<<0, 3>>, <<3, 5>>>> /\ Len(tokenList) = 2)

\* tokenize("1.2.3") has returned the numbers 1.2 and .3 .
C17_Witness ==
    /\ expr = <<"1", ".", "2", ".", "3">>
    /\ tpc = "returned"
    /\ spans = <<<<0, 3>>, <<3, 5>>>>
    /\ tokenList = <<DecimalToken(12, 1), DecimalToken(3, 1)>>

\* C20: for every source string, tokenize of the TypeScript source and
\* tokenize of the compiled script return the same token sequence or both
\* fail at the same position.
C20_CompiledEquivalence ==
    (tpc \in {"returned", "thrown"}) =>
       LET compiled == TokenizeCompiled(dictionary, expr)
       IN /\ (compiled.thrown # <<>>) <=> (tpc = "thrown")
          /\ tpc = "returned" => compiled.tokenList = tokenList
          /\ tpc = "thrown" => compiled.i = i

\* The characters of expr before index i that no token spans.
Skipped == {k \in 1..i : \A n \in 1..Len(spans) : k <= spans[n][1] \/ k > spans[n][2]}

\* The iterations of the while loop made so far: one per token, one per
\* skipped character, one for the throw.
Iterations ==
    Len(tokenList) + Cardinality(Skipped) + (IF tpc = "thrown" THEN 1 ELSE 0)

\* C22: with the built-in registry every iteration of tokenize that does not
\* throw moves the scan index forward by at least one character, and in
\* every state of the loop the return or one more iteration is open,
\* so tokenize returns or throws after at most len(source) iterations; the
\* tokens are in source order and no character is consumed by two tokens.
C22_TokenizerProgress ==
    /\ (tpc = "scan" /\ i < Len(expr)) =>
          LET sc == ScanStep(dictionary, expr, Scan)
          IN IF sc.thrown = <<>>
             THEN /\ sc.i > i
                  /\ sc.i <= Len(expr)
                  /\ Len(sc.tokenList) \in {Len(tokenList), Len(tokenList) + 1}
             ELSE sc.i = i /\ sc.tokenList = tokenList
    /\ tpc = "scan" =>
          \/ i >= Len(expr)
          \/ expr[i + 1] \in Whitespace
          \/ \E by \in {"number", "operator", "punctuation", "function", "none"} :
                Reading(by)
    /\ Len(spans) = Len(tokenList)
    /\ Iterations <= Len(expr)
    /\ i <= Len(expr)
    /\ \A n \in 1..Len(spans) :
          /\ spans[n][1] < spans[n][2]
          /\ spans[n][2] <= i
          /\ n < Len(spans) => spans[n][2] <= spans[n + 1][1]
    /\ \A k \in Skipped : expr[k] \in Whitespace

\* tokenize("2 +") has returned 2 and + after three iterations.
C22_Witness ==
    /\ expr = <<"2", " ", "+">>
    /\ tpc = "returned"
    /\ i = 3
    /\ tokenList = <<NumberToken(2), OperatorToken("+")>>
    /\ spans = <<<<0, 1>>, <<2, 3>>>>

\* e with the character c inserted before index at.
Insert(e, at, c) == SubSeq(e, 1, at) \o <<c>> \o SubSeq(e, at + 1, Len(e))

\* The indices of expr where a token starts or ends, with both ends of expr.
Boundaries ==
    {0, Len(expr)} \cup {spans[k][1] : k \in 1..Len(spans)}
                   \cup {spans[k][2] : k \in 1..Len(spans)}

\* C7: when a source tokenizes, every source obtained by inserting a
\* whitespace character before the first token, between two tokens or after
\* the last one tokenizes to the same tokens.
C7_WhitespaceInsensitivity ==
    tpc = "returned" =>
       \A at \in Boundaries :
          \A c \in Whitespace :
             LET sc == Tokenize(dictionary, Insert(expr, at, c))
             IN sc.thrown = <<>> /\ sc.tokenList = tokenList

=============================================================================
